---- MODULE Spec2Model ----
(***************************************************************************)
(* Warteg Online MCP server: the delivery rescheduling engine.             *)
(*                                                                         *)
(* The model follows src/warlon_client.py (WarlonClient) and the tools of  *)
(* src/warlon_mcp.py (src/src/main.py registers the same tool bodies for   *)
(* another transport).  A calendar date is the number of days since        *)
(* 2024-01-01, which was a Monday, so Python's date.weekday() is the day   *)
(* number modulo 7 and weekday 6 is Sunday.  A datetime keeps its hour, a  *)
(* "YYYY-MM-DD" string is a string, and the remote service is the          *)
(* nondeterministic outcome of every request.                              *)
(***************************************************************************)
EXTENDS Integers, Sequences, FiniteSets, TLC

VARIABLES
    schedules,             \* raw schedule entries held by the remote service
    server,                \* the module that serves: "warlon_mcp" or "main"
    env,                   \* os.environ: WARLON_USERNAME, WARLON_PASSWORD
    clients,               \* _clients: session key -> handle
    handles,               \* the WarlonClient objects, in creation order
    auto_logins,           \* outcomes of the automatic logins so far, per key
    ncalls,                \* number of tool calls started so far
    racers,                \* requests inside get_client at the same time
    prev,                  \* outcome of the last call when the running call
                           \* repeats it
    pc,                    \* position of the running tool call
    tool,                  \* name of the tool that was called
    args,                  \* the arguments of the call
    ctx,                   \* the context of the call
    client,                \* the handle get_client returned to the call
    requests,              \* login and read requests the call has sent
    all_groups,            \* the order's groups as the call read them
    groups_to_reschedule,  \* the list the tool's loop iterates over
    idx,                   \* index of the loop's next element
    current_target,        \* bulk: the cursor; skip_day: target_date
    day_mapping,           \* bulk: old date -> new date
    results,               \* bulk: the results dictionary being filled
    changed,               \* skip_day: skipped; change_address: changed
    calls,                 \* the updateDelivery requests sent, in order
    ret                    \* what the tool call returned (or raised)

vars == <<schedules, server, env, clients, handles, auto_logins, ncalls, racers,
          prev, pc, tool, args, ctx, client, requests, all_groups,
          groups_to_reschedule, idx, current_target, day_mapping, results,
          changed, calls, ret>>

----------------------------------------------------------------------------
(* Bounds of the model.                                                    *)

\* number of delivery entries of the order
MaxRecords == 2

\* the package orders a tool call can name
OrderIds == {1}

\* instants (UTC day, UTC hour) at which the remote service stores a batch
UtcInstants == {<<3, 17>>, <<4, 10>>, <<4, 17>>}

StatusValues == {"SCHEDULED", "DELIVERED"}
MealTypes == {"LUNCH", "DINNER"}
NoteValues == {<<>>, <<"tanpa sambal">>}

----------------------------------------------------------------------------
(* Dates, datetimes and their string forms.                                *)

\* JAKARTA_TZ = ZoneInfo("Asia/Jakarta"): UTC+7 all year
JakartaOffsetHours == 7

\* datetime.astimezone(JAKARTA_TZ) of the instant (utcDay, utcHour)
AsJakarta(utcDay, utcHour) ==
    [day  |-> utcDay + ((utcHour + JakartaOffsetHours) \div 24),
     hour |-> (utcHour + JakartaOffsetHours) % 24]

\* date.weekday(): Monday is 0, Sunday is 6
Weekday(day) == day % 7

IsSunday(day) == Weekday(day) = 6

\* the calendar of January 2024, "%Y-%m-%d" of day 0, 1, 2, ...
DateStrings ==
    <<"2024-01-01", "2024-01-02", "2024-01-03", "2024-01-04", "2024-01-05",
      "2024-01-06", "2024-01-07", "2024-01-08", "2024-01-09", "2024-01-10",
      "2024-01-11", "2024-01-12", "2024-01-13", "2024-01-14", "2024-01-15",
      "2024-01-16", "2024-01-17", "2024-01-18", "2024-01-19", "2024-01-20",
      "2024-01-21">>

\* datetime.strftime("%Y-%m-%d")
Strftime(day) == DateStrings[day + 1]

\* whether datetime.strptime(s, "%Y-%m-%d") accepts s
IsDateString(s) == \E i \in 1..Len(DateStrings) : DateStrings[i] = s

\* datetime.strptime(s, "%Y-%m-%d"): the day of an accepted string
Strptime(s) == (CHOOSE i \in 1..Len(DateStrings) : DateStrings[i] = s) - 1

----------------------------------------------------------------------------
(* Optional arguments and small helpers.                                   *)

None == [some |-> FALSE, val |-> <<>>]

Some(v) == [some |-> TRUE, val |-> v]

Range(s) == {s[i] : i \in 1..Len(s)}

EmptyMap == [d \in {} |-> 0]

\* dict assignment m[k] = v
MapSet(m, k, v) == [d \in (DOMAIN m) \cup {k} |-> IF d = k THEN v ELSE m[d]]

\* the elements of s that belong to keep, in the order of s
RECURSIVE SelectFrom(_, _)
SelectFrom(s, keep) ==
    IF s = <<>> THEN <<>>
    ELSE IF Head(s) \in keep THEN <<Head(s)>> \o SelectFrom(Tail(s), keep)
         ELSE SelectFrom(Tail(s), keep)

----------------------------------------------------------------------------
(* Schedule model: OrderGroup and WarlonClient.get_all_order_groups.       *)

\* one raw entry of userPackageOrderSchedules[..].userPackageOrderGroups;
\* the order's first entry may carry a note, the others carry none
RawEntries(id) ==
    [id : {id}, utc : UtcInstants, type : MealTypes, status : StatusValues,
     customerAddressId : {10 + id},
     notes : IF id = 1 THEN NoteValues ELSE {<<>>}]

\* the raw schedule data the remote service can hold for the order
RawOrders ==
    {s \in [1..MaxRecords -> UNION {RawEntries(i) : i \in 1..MaxRecords}] :
        \A i \in 1..MaxRecords : s[i].id = i}

\* the batch an entry belongs to: one batch per stored instant
ScheduleIdOf(utc) == utc[1] * 24 + utc[2]

\* the OrderGroup built from one raw entry
OrderGroup(raw) ==
    [id             |-> raw.id,
     schedule_id    |-> ScheduleIdOf(raw.utc),
     scheduled_date |-> AsJakarta(raw.utc[1], raw.utc[2]),
     order_type     |-> raw.type,
     status         |-> raw.status,
     address_id     |-> raw.customerAddressId,
     notes          |-> raw.notes]

\* is_editable that holds for a record of every status
is_editable_any(group) == TRUE

\* OrderGroup.is_editable
is_editable(group) == group.status = "SCHEDULED"

\* WarlonClient.get_all_order_groups: one OrderGroup per raw entry, in the
\* order the service lists them
get_all_order_groups(raw) == [i \in 1..Len(raw) |-> OrderGroup(raw[i])]

\* group.scheduled_date.date()
DateOf(group) == group.scheduled_date.day

\* str comparison of the meal types: "DINNER" < "LUNCH"
TypeRank(t) == IF t = "DINNER" THEN 0 ELSE 1

\* (g.scheduled_date, g.order_type) < (h.scheduled_date, h.order_type)
KeyLess(g, h) ==
    \/ g.scheduled_date.day < h.scheduled_date.day
    \/ /\ g.scheduled_date.day = h.scheduled_date.day
       /\ g.scheduled_date.hour < h.scheduled_date.hour
    \/ /\ g.scheduled_date = h.scheduled_date
       /\ TypeRank(g.order_type) < TypeRank(h.order_type)

\* insert g behind every element whose key is not greater (stable)
RECURSIVE InsertByKey(_, _)
InsertByKey(g, s) ==
    IF s = <<>> THEN <<g>>
    ELSE IF KeyLess(g, Head(s)) THEN <<g>> \o s
         ELSE <<Head(s)>> \o InsertByKey(g, Tail(s))

\* list.sort(key=lambda g: (g.scheduled_date, g.order_type)), a stable sort
RECURSIVE SortByKey(_)
SortByKey(s) ==
    IF s = <<>> THEN <<>>
    ELSE InsertByKey(s[Len(s)], SortByKey(SubSeq(s, 1, Len(s) - 1)))

----------------------------------------------------------------------------
(* Arguments of the tool calls.                                            *)

\* "YYYY-MM-DD" strings a caller passes for a source date or a range bound
SourceDateArgs == {"2024-01-05", "2024-01-06"}

\* strings a caller passes as target_start_date: a Saturday and a Sunday
TargetDateArgs == {"2024-01-06", "2024-01-07"}

\* order_types: None, or the tokens of the comma-separated string
OrderTypesArgs ==
    {None, Some(<<"lunch">>), Some(<<"DINNER">>), Some(<<"SNACK">>)}

\* address ids a caller passes as new_address_id
NewAddressArgs == {20}

\* t.strip().upper() of one token
StripUpper(t) == IF t = "lunch" THEN "LUNCH" ELSE t

\* [t.strip().upper() for t in order_types.split(",")] when order_types is
\* given, None otherwise
TypesList(order_types) ==
    IF order_types.some
    THEN Some([i \in 1..Len(order_types.val) |-> StripUpper(order_types.val[i])])
    ELSE None

----------------------------------------------------------------------------
(* WarlonClient.reschedule_order: the updateDelivery request.              *)

\* the JSON payload of PUT /api/customer-package-orders/edit-order; notes is
\* the optional notes argument
EditOrderPayload(group_id, new_day, address_id, order_type, package_order_id, schedule_id, notes) ==
    [packageOrderId    |-> package_order_id,
     orderGroupId      |-> <<schedule_id, group_id>>,
     scheduledDate     |-> Strftime(new_day),
     customerAddressId |-> address_id,
     mealType          |-> order_type,
     notes             |-> IF notes.some THEN notes.val ELSE <<>>,
     deliveryTime      |-> IF order_type = "LUNCH" THEN "12:00 - 13:00"
                           ELSE "18:00 - 19:00"]

\* LoopEnds with a break after a failed request
LoopEndsOnFailure(i, groups, success) == i = Len(groups) \/ ~success

\* whether a for loop over groups ends after its element i: it ends after
\* the last element, whatever reschedule_order returned for it
LoopEnds(i, groups, success) == i = Len(groups)

\* one request as the remote service saw it, with its outcome
Call(payload, success) == [payload |-> payload, ok |-> success]

----------------------------------------------------------------------------
(* WarlonClient.bulk_reschedule.                                           *)

EmptyResults ==
    [success_count |-> 0, failed_count |-> 0, rescheduled |-> <<>>,
     failed |-> <<>>]

\* order_types defaults to both meal types
BulkOrderTypes(types_list) ==
    IF types_list.some THEN Range(types_list.val) ELSE {"LUNCH", "DINNER"}

\* BulkFilter that takes the records of every status
BulkFilterAnyStatus(groups, start, end, types) ==
    SelectFrom(groups,
        {g \in Range(groups) :
            /\ start <= DateOf(g) /\ DateOf(g) <= end
            /\ g.order_type \in types})

\* the filter of bulk_reschedule: within the inclusive range, of a wanted
\* type, editable
BulkFilter(groups, start, end, types) ==
    SelectFrom(groups,
        {g \in Range(groups) :
            /\ start <= DateOf(g) /\ DateOf(g) <= end
            /\ g.order_type \in types
            /\ is_editable(g)})

\* BulkSelect without the sort
BulkSelectUnsorted(groups, start, end, types) ==
    BulkFilter(groups, start, end, types)

\* groups_to_reschedule after the filter and the sort
BulkSelect(groups, start, end, types) ==
    SortByKey(BulkFilter(groups, start, end, types))

\* while current_target.weekday() == 6: current_target += timedelta(days=1)
RECURSIVE SkipSundays(_)
SkipSundays(day) == IF IsSunday(day) THEN SkipSundays(day + 1) ELSE day

\* MappingAfter without the Sunday skip
MappingAfterNoSkip(mapping, cursor, old_date) ==
    IF old_date \in DOMAIN mapping THEN mapping
    ELSE MapSet(mapping, old_date, cursor)

\* MappingAfter that maps every group anew, not every date
MappingAfterPerGroup(mapping, cursor, old_date) ==
    MapSet(mapping, old_date,
           IF old_date \in DOMAIN mapping THEN SkipSundays(mapping[old_date] + 1)
           ELSE SkipSundays(cursor))

\* day_mapping after the loop body has looked up old_date
MappingAfter(mapping, cursor, old_date) ==
    IF old_date \in DOMAIN mapping THEN mapping
    ELSE MapSet(mapping, old_date, SkipSundays(cursor))

\* CursorAfter that leaves the cursor on the date it has just assigned
CursorAfterStay(mapping, cursor, old_date) ==
    IF old_date \in DOMAIN mapping THEN cursor
    ELSE SkipSundays(cursor)

\* current_target after the loop body has looked up old_date
CursorAfter(mapping, cursor, old_date) ==
    IF old_date \in DOMAIN mapping THEN cursor
    ELSE SkipSundays(cursor) + 1

\* NotesOrNone that never passes the notes on
NotesDropped(notes) == None

\* group.notes if group.notes else None
NotesOrNone(notes) == IF notes # <<>> THEN Some(notes) ELSE None

\* the request bulk_reschedule sends for one group
BulkPayload(group, new_date, order_id) ==
    EditOrderPayload(group.id, new_date, group.address_id, group.order_type,
                     order_id, group.schedule_id, NotesOrNone(group.notes))

\* BulkRecord that counts a failed request as a success
BulkRecordAllSuccess(res, group, old_date, new_date, success) ==
    [res EXCEPT !.success_count = @ + 1,
                !.rescheduled = Append(@, <<group.id, old_date, new_date>>)]

\* results after one reschedule_order call returned success
BulkRecord(res, group, old_date, new_date, success) ==
    IF success
    THEN [res EXCEPT !.success_count = @ + 1,
                     !.rescheduled = Append(@, <<group.id, old_date, new_date>>)]
    ELSE [res EXCEPT !.failed_count = @ + 1,
                     !.failed = Append(@, <<group.id, "Reschedule failed">>)]

----------------------------------------------------------------------------
(* The remote service applies an accepted updateDelivery request.          *)

\* the instant the service keeps for a record sent to the calendar date
\* day: the record's own instant when it is on that date already, the
\* date's local midnight otherwise
InstantOn(utc, day) ==
    IF AsJakarta(utc[1], utc[2]).day = day THEN utc
    ELSE <<day - 1, 24 - JakartaOffsetHours>>

\* the order's raw entries after the service has accepted the request
ApplyUpdate(raw, payload) ==
    [i \in 1..Len(raw) |->
        IF raw[i].id = payload.orderGroupId[2]
        THEN [raw[i] EXCEPT
                 !.utc = InstantOn(@, Strptime(payload.scheduledDate)),
                 !.type = payload.mealType,
                 !.customerAddressId = payload.customerAddressId,
                 !.notes = payload.notes]
        ELSE raw[i]]

\* the order's raw entries after one updateDelivery request
AfterCall(raw, payload, success) ==
    IF success THEN ApplyUpdate(raw, payload) ELSE raw

----------------------------------------------------------------------------
(* Sessions: the client cache of warlon_mcp.py and of src/main.py, and     *)
(* WarlonClient's login state.                                             *)

\* the module that serves the tools
Servers == {"warlon_mcp", "main"}

\* the caller sessions of the transport
Sessions == {"s1", "s2"}

\* the (username, password) pairs the remote service accepts
Accounts == {<<"andhika", "rahasia">>, <<"budi", "sandi">>}

\* ctx.session_config: none, both credentials, the username only
ConfigValues ==
    {None,
     Some([warlon_username |-> Some("andhika"),
           warlon_password |-> Some("rahasia")]),
     Some([warlon_username |-> Some("andhika"), warlon_password |-> None])}

\* os.environ: no credentials, or both
EnvValues ==
    {[WARLON_USERNAME |-> None, WARLON_PASSWORD |-> None],
     [WARLON_USERNAME |-> Some("budi"), WARLON_PASSWORD |-> Some("sandi")]}

\* the context the transport hands to a tool call
Contexts == [session : Sessions, session_config : ConfigValues]

\* WarlonClient.__init__: a handle that has not logged in
WarlonClient == [is_authenticated |-> FALSE, user_data |-> None]

\* one request to the remote service with its outcome
Request(kind, detail, ok) == [kind |-> kind, detail |-> detail, ok |-> ok]

\* the requests of WarlonClient.login: the login page, then the credentials
LoginRequests(username, password, accepted) ==
    <<Request("GET /login", <<>>, accepted),
      Request("POST /api/auth/login", <<username, password>>,
              accepted /\ <<username, password>> \in Accounts)>>

\* login that forgets an earlier login when the service refuses this one
login_resets(self, username, password, accepted) ==
    IF accepted /\ <<username, password>> \in Accounts
    THEN [is_authenticated |-> TRUE, user_data |-> Some(username)]
    ELSE WarlonClient

\* login that stores the user data and leaves the flag alone
login_no_flag(self, username, password, accepted) ==
    IF accepted /\ <<username, password>> \in Accounts
    THEN [self EXCEPT !.user_data = Some(username)]
    ELSE self

\* WarlonClient.login: the handle after the call; a login the service does
\* not accept leaves the handle as it was
login(self, username, password, accepted) ==
    IF accepted /\ <<username, password>> \in Accounts
    THEN [is_authenticated |-> TRUE, user_data |-> Some(username)]
    ELSE self

\* the guard of the data methods without the check
AuthenticatedUnchecked(self) == TRUE

\* the guard of every data method of WarlonClient: if it is false the
\* method raises RuntimeError("Not authenticated. Call login() first.")
Authenticated(self) == self.is_authenticated

\* the cache key of a tool call: warlon_mcp.py keys by the identity of the
\* context object, src/main.py calls get_client_for_session() with its
\* default argument
SessionKey(c) == IF server = "warlon_mcp" THEN c.session ELSE "default"

\* a cache lookup that never finds the key
NeverCached(session_id) == FALSE

\* session_id in _clients
IsCached(session_id) == session_id \in DOMAIN clients

\* value if value else fallback
OrElse(value, fallback) == IF value.some THEN value ELSE fallback

\* main.get_config_value: Context.get('request') raises TypeError for a key
\* that is no ContextVar, the bare except swallows it, and the value is
\* os.environ.get(key.upper().replace('-', '_'))
get_config_value(c, key) ==
    IF key = "warlon_username" THEN env.WARLON_USERNAME
    ELSE env.WARLON_PASSWORD

\* the username and password get_client / get_client_for_session log in
\* with
Credentials(c) ==
    IF server = "warlon_mcp"
    THEN LET config == c.session_config
             username == IF config.some THEN config.val.warlon_username
                         ELSE None
             password == IF config.some THEN config.val.warlon_password
                         ELSE None
         IN  [username |-> OrElse(username, env.WARLON_USERNAME),
              password |-> OrElse(password, env.WARLON_PASSWORD)]
    ELSE [username |-> OrElse(get_config_value(c, "warlon_username"),
                              env.WARLON_USERNAME),
          password |-> OrElse(get_config_value(c, "warlon_password"),
                              env.WARLON_PASSWORD)]

\* an automatic login as soon as one credential is there
ShouldAutoLoginEither(username, password) == username.some \/ password.some

\* if username and password
ShouldAutoLogin(username, password) == username.some /\ password.some

\* an optional value as it is passed on: Python's None is written "None"
Value(opt) == IF opt.some THEN opt.val ELSE "None"

\* get_client(ctx) / get_client_for_session(): the cache, the handles, the
\* requests sent, the handle returned and the outcome of the automatic
\* login if one was attempted; accepted is the answer of the remote service
\* to a login
GetClient(c, accepted) ==
    LET session_id == SessionKey(c)
    IN  IF IsCached(session_id)
        THEN [clients |-> clients, handles |-> handles, requests |-> <<>>,
              client |-> clients[session_id], auto |-> <<>>]
        ELSE LET cred == Credentials(c)
                 attempt == ShouldAutoLogin(cred.username, cred.password)
                 h == Len(handles) + 1
             IN  [clients |-> MapSet(clients, session_id, h),
                  handles |-> Append(handles,
                      IF attempt
                      THEN login(WarlonClient, Value(cred.username),
                                 Value(cred.password), accepted)
                      ELSE WarlonClient),
                  requests |-> IF attempt
                               THEN LoginRequests(Value(cred.username),
                                                  Value(cred.password),
                                                  accepted)
                               ELSE <<>>,
                  client |-> h,
                  auto |-> IF attempt
                           THEN <<accepted /\ <<Value(cred.username),
                                                 Value(cred.password)>>
                                                   \in Accounts>>
                           ELSE <<>>]

\* the handle a resolved call works with
Handle(gc) == gc.handles[gc.client]

\* GET /api/customer-package-orders/{order_id}, the read of every
\* rescheduling tool
OrderDetailRequest(order_id, readOk) ==
    Request("GET /api/customer-package-orders/{id}", <<order_id>>, readOk)

----------------------------------------------------------------------------
(* The state after construction: the cache is empty, no tool call is       *)
(* running.                                                                *)

NoArgs == [a \in {} |-> 0]

NoRet == [kind |-> "none"]

NoContext == [session |-> "none", session_config |-> None]

\* the state of one process in which no tool has been called yet
Loaded ==
    /\ clients = EmptyMap
    /\ handles = <<>>
    /\ requests = <<>>
    /\ auto_logins = EmptyMap
    /\ ctx = NoContext
    /\ client = 0
    /\ ncalls = 0
    /\ racers = <<>>
    /\ prev = None
    /\ all_groups = <<>>
    /\ pc = "idle"
    /\ tool = "none"
    /\ args = NoArgs
    /\ groups_to_reschedule = <<>>
    /\ idx = 1
    /\ current_target = 0
    /\ day_mapping = EmptyMap
    /\ results = EmptyResults
    /\ changed = <<>>
    /\ calls = <<>>
    /\ ret = NoRet

\* warlon_mcp.py serves, the environment holds the credentials of an
\* account, and the remote service holds any order
Init ==
    /\ schedules \in RawOrders
    /\ server = "warlon_mcp"
    /\ env = [WARLON_USERNAME |-> Some("budi"),
              WARLON_PASSWORD |-> Some("sandi")]
    /\ Loaded

\* the outcomes of the automatic logins get_client has attempted for a key
Attempts(session_id) ==
    IF session_id \in DOMAIN auto_logins THEN auto_logins[session_id]
    ELSE <<>>

\* the start of every tool call: client = get_client(ctx); gc is what
\* get_client did, reqs the requests the call has sent when the action ends
Begin(t, a, c, gc, reqs) ==
    /\ tool' = t
    /\ args' = a
    /\ ctx' = c
    /\ client' = gc.client
    /\ clients' = gc.clients
    /\ handles' = gc.handles
    /\ requests' = reqs
    /\ auto_logins' = IF gc.auto # <<>>
                      THEN MapSet(auto_logins, SessionKey(c),
                                  Attempts(SessionKey(c)) \o gc.auto)
                      ELSE auto_logins
    /\ ncalls' = ncalls + 1
    /\ prev' = IF tool = t /\ args = a /\ ctx = c
               THEN Some([ret |-> ret, calls |-> calls, schedules |-> schedules])
               ELSE None
    /\ calls' = <<>>
    /\ UNCHANGED <<server, env, schedules, racers>>

\* a tool call that returns (or raises) before it enters a loop; groups is
\* what the call has read
Finish(t, a, c, gc, reqs, groups, r) ==
    /\ Begin(t, a, c, gc, reqs)
    /\ pc' = "done"
    /\ ret' = r
    /\ all_groups' = groups
    /\ groups_to_reschedule' = <<>>
    /\ idx' = 1
    /\ current_target' = 0
    /\ day_mapping' = EmptyMap
    /\ results' = EmptyResults
    /\ changed' = <<>>

\* what a loop iteration leaves alone
session_vars ==
    <<server, env, clients, handles, requests, auto_logins, ctx, client,
      ncalls, racers, prev, all_groups>>

\* an exception that leaves a tool without a try block
Raised(e) == [kind |-> "raised", error |-> e]

----------------------------------------------------------------------------
(* The tool login and the tools that pass a read or the restrictions       *)
(* through.                                                                *)

\* the tool login: get_client, then client.login(username, password)
LoginTool(c, accepted, username, password, answered) ==
    LET a == [username |-> username, password |-> password]
        gc == GetClient(c, accepted)
        after == login(Handle(gc), username, password, answered)
    IN  /\ pc \in {"idle", "done"}
        /\ Finish("login", a, c,
                  [gc EXCEPT !.handles[gc.client] = after],
                  gc.requests \o LoginRequests(username, password, answered),
                  <<>>,
                  [kind |-> "login",
                   success |-> answered /\ <<username, password>> \in Accounts])

\* the tools that call one data method of the client and format its result
DataTools ==
    {"get_package_orders", "get_order_details", "get_available_restrictions",
     "get_my_restrictions", "update_restrictions"}

\* the request of the data method behind a tool
DataRequest(op, remoteOk) ==
    Request(CASE op = "get_package_orders" -> "GET /api/customer-package-orders"
              [] op = "get_order_details" -> "GET /api/customer-package-orders/{id}"
              [] op = "get_available_restrictions" -> "GET /api/package-restrictions/available"
              [] op = "get_my_restrictions" -> "GET /api/customer-package-orders"
              [] OTHER -> "PUT /api/users/restrictions-update",
            <<>>, remoteOk)

\* one of the DataTools: get_client, the guard of the method, the request;
\* update_restrictions catches the RequestException, the reads let
\* raise_for_status() through
DataTool(c, accepted, op, remoteOk) ==
    LET gc == GetClient(c, accepted)
        sent == Append(gc.requests, DataRequest(op, remoteOk))
    IN  /\ pc \in {"idle", "done"}
        /\ IF ~Authenticated(Handle(gc))
           THEN Finish(op, NoArgs, c, gc, gc.requests, <<>>,
                       Raised("not authenticated"))
           ELSE IF remoteOk
           THEN Finish(op, NoArgs, c, gc, sent, <<>>,
                       [kind |-> "data", success |-> TRUE])
           ELSE IF op = "update_restrictions"
           THEN Finish(op, NoArgs, c, gc, sent, <<>>,
                       [kind |-> "data", success |-> FALSE])
           ELSE Finish(op, NoArgs, c, gc, sent, <<>>, Raised("http"))

----------------------------------------------------------------------------
(* The tools bulk_reschedule and hold_deliveries.                          *)

\* ResumeDate that resumes on the last day of the hold
ResumeDateSameDay(hold_end) == Strptime(hold_end)

\* resume_date = end + timedelta(days=1) of hold_deliveries
ResumeDate(hold_end) == Strptime(hold_end) + 1

\* what the tool returns once client.bulk_reschedule has returned res
BulkToolReturn(t, a, res) ==
    IF t = "bulk_reschedule"
    THEN [kind |-> "bulk", successful |-> res.success_count,
          failed |-> res.failed_count, rescheduled |-> res.rescheduled]
    ELSE [kind |-> "hold", success |-> res.success_count > 0,
          resume_date |-> Strftime(ResumeDate(a.hold_end)),
          deliveries_held |-> res.success_count, failed |-> res.failed_count]

\* BulkToolException that returns an ordinary empty outcome
BulkToolExceptionIgnored(t, e) ==
    [kind |-> "bulk", successful |-> 0, failed |-> 0, rescheduled |-> <<>>]

\* an exception inside client.bulk_reschedule: the bulk tool catches it,
\* hold_deliveries lets it through
BulkToolException(t, e) ==
    IF t = "bulk_reschedule" THEN [kind |-> "error", error |-> e]
    ELSE Raised(e)

\* client.bulk_reschedule up to its loop: read, filter, sort
ClientBulkReschedule(t, a, c, gc, start, end, target, types_list, readOk) ==
    LET sent == Append(gc.requests, OrderDetailRequest(a.order_id, readOk))
    IN  IF ~Authenticated(Handle(gc))
        THEN Finish(t, a, c, gc, gc.requests, <<>>,
                    BulkToolException(t, "not authenticated"))
        ELSE IF ~readOk
        THEN Finish(t, a, c, gc, sent, <<>>, BulkToolException(t, "http"))
        ELSE LET groups == get_all_order_groups(schedules)
                 selected == BulkSelect(groups, start, end,
                                        BulkOrderTypes(types_list))
             IN  /\ Begin(t, a, c, gc, sent)
                 /\ all_groups' = groups
                 /\ groups_to_reschedule' = selected
                 /\ idx' = 1
                 /\ current_target' = target
                 /\ day_mapping' = EmptyMap
                 /\ results' = EmptyResults
                 /\ changed' = <<>>
                 /\ pc' = IF selected = <<>> THEN "done" ELSE "bulk_loop"
                 /\ ret' = IF selected = <<>>
                           THEN BulkToolReturn(t, a, EmptyResults) ELSE NoRet

\* the tool bulk_reschedule, up to the first updateDelivery request
BulkRescheduleTool(c, accepted, order_id, start_date, end_date, target_start_date, order_types, readOk) ==
    LET a == [order_id |-> order_id, start_date |-> start_date,
              end_date |-> end_date, target_start_date |-> target_start_date,
              order_types |-> order_types]
        t == "bulk_reschedule"
        gc == GetClient(c, accepted)
        types_list == TypesList(order_types)
    IN  /\ pc \in {"idle", "done"}
        /\ IF \E d \in {start_date, end_date, target_start_date} : ~IsDateString(d)
           THEN Finish(t, a, c, gc, gc.requests, <<>>,
                       [kind |-> "invalid", what |-> "date format"])
           ELSE IF IsSunday(Strptime(target_start_date))
           THEN Finish(t, a, c, gc, gc.requests, <<>>,
                       [kind |-> "invalid", what |-> "sunday"])
           ELSE IF /\ types_list.some
                   /\ \E i \in 1..Len(types_list.val) :
                          types_list.val[i] \notin {"LUNCH", "DINNER"}
           THEN Finish(t, a, c, gc, gc.requests, <<>>,
                       [kind |-> "invalid", what |-> "order type"])
           ELSE ClientBulkReschedule(t, a, c, gc, Strptime(start_date),
                                     Strptime(end_date),
                                     Strptime(target_start_date), types_list,
                                     readOk)

\* the tool hold_deliveries, up to the first updateDelivery request
HoldDeliveries(c, accepted, order_id, hold_start, hold_end, order_types, readOk) ==
    LET a == [order_id |-> order_id, hold_start |-> hold_start,
              hold_end |-> hold_end, order_types |-> order_types]
        t == "hold_deliveries"
        gc == GetClient(c, accepted)
    IN  /\ pc \in {"idle", "done"}
        /\ IF \E d \in {hold_start, hold_end} : ~IsDateString(d)
           THEN Finish(t, a, c, gc, gc.requests, <<>>, Raised("ValueError"))
           ELSE ClientBulkReschedule(t, a, c, gc, Strptime(hold_start),
                                     Strptime(hold_end),
                                     ResumeDate(hold_end),
                                     TypesList(order_types), readOk)

\* one iteration of the loop of client.bulk_reschedule; the return of the
\* tool follows the last iteration
BulkStep(success) ==
    /\ pc = "bulk_loop"
    /\ LET group == groups_to_reschedule[idx]
           old_date == DateOf(group)
           mapping == MappingAfter(day_mapping, current_target, old_date)
           new_date == mapping[old_date]
           payload == BulkPayload(group, new_date, args.order_id)
           res == BulkRecord(results, group, old_date, new_date, success)
           last == LoopEnds(idx, groups_to_reschedule, success)
       IN  /\ day_mapping' = mapping
           /\ current_target' = CursorAfter(day_mapping, current_target, old_date)
           /\ calls' = Append(calls, Call(payload, success))
           /\ schedules' = AfterCall(schedules, payload, success)
           /\ results' = res
           /\ idx' = idx + 1
           /\ pc' = IF last THEN "done" ELSE "bulk_loop"
           /\ ret' = IF last THEN BulkToolReturn(tool, args, res) ELSE ret
    /\ UNCHANGED <<session_vars, tool, args, groups_to_reschedule, changed>>

----------------------------------------------------------------------------
(* The tool skip_day.                                                      *)

\* max(g.scheduled_date for g in groups), a datetime
MaxScheduledDate(groups) ==
    CHOOSE m \in {groups[i].scheduled_date : i \in 1..Len(groups)} :
        \A i \in 1..Len(groups) :
            \/ groups[i].scheduled_date.day < m.day
            \/ /\ groups[i].scheduled_date.day = m.day
               /\ groups[i].scheduled_date.hour <= m.hour

\* to_skip: the editable groups of the date and the wanted types, in the
\* order the service lists them
SkipFilter(groups, skip_day_, types_list) ==
    SelectFrom(groups,
        {g \in Range(groups) :
            /\ DateOf(g) = skip_day_
            /\ is_editable(g)
            /\ (~types_list.some \/ g.order_type \in Range(types_list.val))})

\* target_date before the loop: the day after last_date, Sundays skipped
FirstSkipTarget(groups) == SkipSundays(MaxScheduledDate(groups).day + 1)

\* SkipTargetAfter that advances after a failed request too
SkipTargetAfterAlways(target_date, success) == SkipSundays(target_date + 1)

\* SkipTargetAfter without the Sunday skip
SkipTargetAfterNoSkip(target_date, success) ==
    IF success THEN target_date + 1 ELSE target_date

\* target_date after one reschedule_order call returned success
SkipTargetAfter(target_date, success) ==
    IF success THEN SkipSundays(target_date + 1) ELSE target_date

\* the request skip_day sends for one group: no notes argument
SkipPayload(group, target_date, order_id) ==
    EditOrderPayload(group.id, target_date, group.address_id, group.order_type,
                     order_id, group.schedule_id, None)

\* the entry of skipped for one moved group
SkippedEntry(group, skip_date, target_date) ==
    [group_id |-> group.id, type |-> group.order_type, from_date |-> skip_date,
     to_date |-> Strftime(target_date)]

\* the tool skip_day, up to the first updateDelivery request
SkipDay(c, accepted, order_id, skip_date, order_types, readOk) ==
    LET a == [order_id |-> order_id, skip_date |-> skip_date,
              order_types |-> order_types]
        t == "skip_day"
        gc == GetClient(c, accepted)
        sent == Append(gc.requests, OrderDetailRequest(order_id, readOk))
    IN  /\ pc \in {"idle", "done"}
        /\ IF ~IsDateString(skip_date)
           THEN Finish(t, a, c, gc, gc.requests, <<>>, Raised("ValueError"))
           ELSE IF ~Authenticated(Handle(gc))
           THEN Finish(t, a, c, gc, gc.requests, <<>>,
                       Raised("not authenticated"))
           ELSE IF ~readOk
           THEN Finish(t, a, c, gc, sent, <<>>, Raised("http"))
           ELSE IF schedules = <<>>
           THEN Finish(t, a, c, gc, sent, <<>>, Raised("ValueError"))
           ELSE LET groups == get_all_order_groups(schedules)
                    to_skip == SkipFilter(groups, Strptime(skip_date),
                                          TypesList(order_types))
                IN  IF to_skip = <<>>
                    THEN Finish(t, a, c, gc, sent, groups,
                                [kind |-> "skip", success |-> FALSE,
                                 skipped |-> <<>>])
                    ELSE /\ Begin(t, a, c, gc, sent)
                         /\ all_groups' = groups
                         /\ groups_to_reschedule' = to_skip
                         /\ idx' = 1
                         /\ current_target' = FirstSkipTarget(groups)
                         /\ changed' = <<>>
                         /\ day_mapping' = EmptyMap
                         /\ results' = EmptyResults
                         /\ pc' = "skip_loop"
                         /\ ret' = NoRet

\* one iteration of the loop of skip_day; the return follows the last one
SkipStep(success) ==
    /\ pc = "skip_loop"
    /\ LET group == groups_to_reschedule[idx]
           payload == SkipPayload(group, current_target, args.order_id)
           skipped == IF success
                      THEN Append(changed, SkippedEntry(group, args.skip_date,
                                                        current_target))
                      ELSE changed
           last == LoopEnds(idx, groups_to_reschedule, success)
       IN  /\ calls' = Append(calls, Call(payload, success))
           /\ schedules' = AfterCall(schedules, payload, success)
           /\ changed' = skipped
           /\ current_target' = SkipTargetAfter(current_target, success)
           /\ idx' = idx + 1
           /\ pc' = IF last THEN "done" ELSE "skip_loop"
           /\ ret' = IF last
                     THEN [kind |-> "skip", success |-> TRUE, skipped |-> skipped]
                     ELSE ret
    /\ UNCHANGED <<session_vars, tool, args, groups_to_reschedule, day_mapping,
                   results>>

----------------------------------------------------------------------------
(* The tool change_address.                                                *)

\* the (date, start_date, end_date) arguments a caller passes
AddressDateArgs ==
    [date : {Some(d) : d \in SourceDateArgs}, start_date : {None},
     end_date : {None}]
    \cup [date : {None}, start_date : {Some(d) : d \in SourceDateArgs},
          end_date : {Some(d) : d \in SourceDateArgs}]
    \cup [date : {None}, start_date : {None, Some("2024-01-05")},
          end_date : {None}]

\* get_orders_by_date_range that forgets the lower bound of the range
get_orders_by_date_range_no_start(groups, start, end) ==
    SortByKey(SelectFrom(groups,
        {g \in Range(groups) : DateOf(g) <= end}))

\* WarlonClient.get_orders_by_date_range: the groups of the inclusive range,
\* sorted
get_orders_by_date_range(groups, start, end) ==
    SortByKey(SelectFrom(groups,
        {g \in Range(groups) : start <= DateOf(g) /\ DateOf(g) <= end}))

\* groups = [g for g in groups if g.order_type in types_list], when given
AddressTypeFilter(groups, types_list) ==
    IF types_list.some
    THEN SelectFrom(groups,
             {g \in Range(groups) : g.order_type \in Range(types_list.val)})
    ELSE groups

\* AddressPayload that sends the day after the group's date
AddressPayloadNextDay(group, new_address_id, order_id) ==
    EditOrderPayload(group.id, DateOf(group) + 1, new_address_id,
                     group.order_type, order_id, group.schedule_id, None)

\* the request change_address sends for one group: the group's own
\* scheduled_date, the new address, no notes argument
AddressPayload(group, new_address_id, order_id) ==
    EditOrderPayload(group.id, DateOf(group), new_address_id, group.order_type,
                     order_id, group.schedule_id, None)

\* the entry of changed for one updated group
ChangedEntry(group, new_address_id) ==
    [group_id |-> group.id, date |-> Strftime(DateOf(group)),
     type |-> group.order_type, new_address_id |-> new_address_id]

\* what change_address returns after its loop
AddressReturn(changed_) ==
    [kind |-> "address", success |-> Len(changed_) > 0, changed |-> changed_]

\* the tool change_address, up to the first iteration of its loop
ChangeAddress(c, accepted, order_id, new_address_id, dates, order_types, readOk) ==
    LET a == [order_id |-> order_id, new_address_id |-> new_address_id,
              date |-> dates.date, start_date |-> dates.start_date,
              end_date |-> dates.end_date, order_types |-> order_types]
        t == "change_address"
        gc == GetClient(c, accepted)
        sent == Append(gc.requests, OrderDetailRequest(order_id, readOk))
        single == dates.date.some
        ranged == dates.start_date.some /\ dates.end_date.some
        given == IF single THEN {dates.date.val}
                 ELSE {dates.start_date.val, dates.end_date.val}
    IN  /\ pc \in {"idle", "done"}
        /\ IF ~single /\ ~ranged
           THEN Finish(t, a, c, gc, gc.requests, <<>>,
                       [kind |-> "invalid", what |-> "date arguments"])
           ELSE IF \E d \in given : ~IsDateString(d)
           THEN Finish(t, a, c, gc, gc.requests, <<>>, Raised("ValueError"))
           ELSE IF ~Authenticated(Handle(gc))
           THEN Finish(t, a, c, gc, gc.requests, <<>>,
                       Raised("not authenticated"))
           ELSE IF ~readOk
           THEN Finish(t, a, c, gc, sent, <<>>, Raised("http"))
           ELSE LET start == Strptime(IF single THEN dates.date.val
                                      ELSE dates.start_date.val)
                    end == Strptime(IF single THEN dates.date.val
                                    ELSE dates.end_date.val)
                    read == get_all_order_groups(schedules)
                    groups == AddressTypeFilter(
                                  get_orders_by_date_range(read, start, end),
                                  TypesList(order_types))
                IN  IF groups = <<>>
                    THEN Finish(t, a, c, gc, sent, read,
                                [kind |-> "address", success |-> FALSE,
                                 changed |-> <<>>])
                    ELSE /\ Begin(t, a, c, gc, sent)
                         /\ all_groups' = read
                         /\ groups_to_reschedule' = groups
                         /\ idx' = 1
                         /\ changed' = <<>>
                         /\ current_target' = 0
                         /\ day_mapping' = EmptyMap
                         /\ results' = EmptyResults
                         /\ pc' = "address_loop"
                         /\ ret' = NoRet

\* one iteration of the loop of change_address over a group that is not
\* editable: continue, no request
AddressSkipLocked ==
    /\ pc = "address_loop"
    /\ ~is_editable(groups_to_reschedule[idx])
    /\ LET last == LoopEnds(idx, groups_to_reschedule, TRUE)
       IN  /\ idx' = idx + 1
           /\ pc' = IF last THEN "done" ELSE "address_loop"
           /\ ret' = IF last THEN AddressReturn(changed) ELSE ret
    /\ UNCHANGED <<session_vars, schedules, tool, args, groups_to_reschedule,
                   current_target, day_mapping, results, changed, calls>>

\* one iteration of the loop of change_address over an editable group
AddressStep(success) ==
    /\ pc = "address_loop"
    /\ is_editable(groups_to_reschedule[idx])
    /\ LET group == groups_to_reschedule[idx]
           payload == AddressPayload(group, args.new_address_id, args.order_id)
           changed_ == IF success
                       THEN Append(changed,
                                ChangedEntry(group, args.new_address_id))
                       ELSE changed
           last == LoopEnds(idx, groups_to_reschedule, success)
       IN  /\ calls' = Append(calls, Call(payload, success))
           /\ schedules' = AfterCall(schedules, payload, success)
           /\ changed' = changed_
           /\ idx' = idx + 1
           /\ pc' = IF last THEN "done" ELSE "address_loop"
           /\ ret' = IF last THEN AddressReturn(changed_) ELSE ret
    /\ UNCHANGED <<session_vars, tool, args, groups_to_reschedule,
                   current_target, day_mapping, results>>

\* the caller sends its change_address call a second time, unchanged
RepeatChangeAddress(readOk) ==
    /\ pc = "done"
    /\ tool = "change_address"
    /\ prev = None
    /\ ChangeAddress(ctx, TRUE, args.order_id, args.new_address_id,
                     [date |-> args.date, start_date |-> args.start_date,
                      end_date |-> args.end_date],
                     args.order_types, readOk)

----------------------------------------------------------------------------
(* The tool reschedule_delivery.                                           *)

\* the group_id arguments a caller passes: the order's first record, and an
\* id the order does not hold
GroupIdArgs == {1, MaxRecords + 1}

\* the order_type arguments a caller passes to reschedule_delivery; the
\* tool compares the string as it is
SingleTypeArgs == {"LUNCH", "lunch"}

\* FindGroup that takes the first record whatever its id
FindGroupFirst(groups, group_id) ==
    IF groups = <<>> THEN None ELSE Some(groups[1])

\* for g in groups: if g.id == group_id: target_group = g; break
FindGroup(groups, group_id) ==
    IF \E i \in 1..Len(groups) : groups[i].id = group_id
    THEN Some(groups[CHOOSE i \in 1..Len(groups) :
                         /\ groups[i].id = group_id
                         /\ \A j \in 1..(i - 1) : groups[j].id # group_id])
    ELSE None

\* the request reschedule_delivery sends: the caller's date, address and
\* meal type, the schedule_id of the group that was found, no notes
SinglePayload(target_group, a) ==
    EditOrderPayload(a.group_id, Strptime(a.new_date), a.address_id,
                     a.order_type, a.order_id, target_group.schedule_id, None)

\* the tool reschedule_delivery, up to its updateDelivery request; both
\* except clauses return a message
RescheduleDelivery(c, accepted, order_id, group_id, new_date, address_id, order_type, readOk) ==
    LET a == [order_id |-> order_id, group_id |-> group_id,
              new_date |-> new_date, address_id |-> address_id,
              order_type |-> order_type]
        t == "reschedule_delivery"
        gc == GetClient(c, accepted)
        sent == Append(gc.requests, OrderDetailRequest(order_id, readOk))
    IN  /\ pc \in {"idle", "done"}
        /\ IF ~IsDateString(new_date)
           THEN Finish(t, a, c, gc, gc.requests, <<>>,
                       [kind |-> "invalid", what |-> "date format"])
           ELSE IF IsSunday(Strptime(new_date))
           THEN Finish(t, a, c, gc, gc.requests, <<>>,
                       [kind |-> "invalid", what |-> "sunday"])
           ELSE IF order_type \notin {"LUNCH", "DINNER"}
           THEN Finish(t, a, c, gc, gc.requests, <<>>,
                       [kind |-> "invalid", what |-> "order type"])
           ELSE IF ~Authenticated(Handle(gc))
           THEN Finish(t, a, c, gc, gc.requests, <<>>,
                       [kind |-> "error", error |-> "not authenticated"])
           ELSE IF ~readOk
           THEN Finish(t, a, c, gc, sent, <<>>,
                       [kind |-> "error", error |-> "http"])
           ELSE LET groups == get_all_order_groups(schedules)
                    target_group == FindGroup(groups, group_id)
                IN  IF ~target_group.some
                    THEN Finish(t, a, c, gc, sent, groups,
                                [kind |-> "not found", group_id |-> group_id])
                    ELSE /\ Begin(t, a, c, gc, sent)
                         /\ all_groups' = groups
                         /\ groups_to_reschedule' = <<target_group.val>>
                         /\ idx' = 1
                         /\ changed' = <<>>
                         /\ current_target' = 0
                         /\ day_mapping' = EmptyMap
                         /\ results' = EmptyResults
                         /\ pc' = "single_call"
                         /\ ret' = NoRet

\* client.reschedule_order of reschedule_delivery and the message the tool
\* returns
RescheduleStep(success) ==
    /\ pc = "single_call"
    /\ LET payload == SinglePayload(groups_to_reschedule[idx], args)
       IN  /\ calls' = Append(calls, Call(payload, success))
           /\ schedules' = AfterCall(schedules, payload, success)
           /\ idx' = idx + 1
           /\ pc' = "done"
           /\ ret' = [kind |-> "single", success |-> success]
    /\ UNCHANGED <<session_vars, tool, args, groups_to_reschedule,
                   current_target, day_mapping, results, changed>>

----------------------------------------------------------------------------
(* The next-state relation: one tool call of one caller session, against   *)
(* any order the remote service can hold and any outcome of each request.  *)

\* the context of the caller: no session configuration
CallerContext == [session |-> "s1", session_config |-> None]

Next ==
    \/ /\ pc = "idle"
       /\ \E k \in BOOLEAN, o \in OrderIds, s \in SourceDateArgs,
             e \in SourceDateArgs, t \in TargetDateArgs,
             ty \in OrderTypesArgs, r \in BOOLEAN :
             BulkRescheduleTool(CallerContext, k, o, s, e, t, ty, r)
    \/ /\ pc = "idle"
       /\ \E k \in BOOLEAN, o \in OrderIds, s \in SourceDateArgs,
             e \in SourceDateArgs, ty \in OrderTypesArgs, r \in BOOLEAN :
             HoldDeliveries(CallerContext, k, o, s, e, ty, r)
    \/ \E ok \in BOOLEAN : BulkStep(ok)
    \/ /\ pc = "idle"
       /\ \E k \in BOOLEAN, o \in OrderIds, d \in SourceDateArgs,
             ty \in OrderTypesArgs, r \in BOOLEAN :
             SkipDay(CallerContext, k, o, d, ty, r)
    \/ \E ok \in BOOLEAN : SkipStep(ok)
    \/ /\ pc = "idle"
       /\ \E k \in BOOLEAN, o \in OrderIds, n \in NewAddressArgs,
             d \in AddressDateArgs, ty \in OrderTypesArgs, r \in BOOLEAN :
             ChangeAddress(CallerContext, k, o, n, d, ty, r)
    \/ AddressSkipLocked
    \/ \E ok \in BOOLEAN : AddressStep(ok)
    \/ /\ pc = "idle"
       /\ \E k \in BOOLEAN, o \in OrderIds, g \in GroupIdArgs,
             d \in TargetDateArgs, n \in NewAddressArgs,
             ty \in SingleTypeArgs, r \in BOOLEAN :
             RescheduleDelivery(CallerContext, k, o, g, d, n, ty, r)
    \/ \E ok \in BOOLEAN : RescheduleStep(ok)

Spec == Init /\ [][Next]_vars

----------------------------------------------------------------------------
(* A change_address call and its repetition.                               *)

\* the (date, start_date, end_date) arguments of the repeated call
RepeatDateArgs ==
    {[date |-> Some("2024-01-05"), start_date |-> None, end_date |-> None],
     [date |-> None, start_date |-> Some("2024-01-05"),
      end_date |-> Some("2024-01-06")]}

\* the order_types arguments of the repeated call
RepeatTypesArgs == {None, Some(<<"lunch">>)}

RepeatNext ==
    \/ /\ pc = "idle"
       /\ \E k \in BOOLEAN, o \in OrderIds, n \in NewAddressArgs,
             d \in RepeatDateArgs, ty \in RepeatTypesArgs, r \in BOOLEAN :
             ChangeAddress(CallerContext, k, o, n, d, ty, r)
    \/ \E r \in BOOLEAN : RepeatChangeAddress(r)
    \/ AddressSkipLocked
    \/ \E ok \in BOOLEAN : AddressStep(ok)

RepeatSpec == Init /\ [][RepeatNext]_vars

----------------------------------------------------------------------------
(* Several tool calls of several caller sessions, served by either module, *)
(* with arguments that fail validation among them.                         *)

\* number of tool calls of one run
MaxCalls == 2

\* an order whose first delivery is still scheduled and whose other
\* deliveries have been delivered, all on 2024-01-05
SampleOrder ==
    [i \in 1..MaxRecords |->
        [id |-> i, utc |-> <<3, 17>>, type |-> "LUNCH",
         status |-> IF i = 1 THEN "SCHEDULED" ELSE "DELIVERED",
         customerAddressId |-> 10 + i, notes |-> <<>>]]

\* the orders of the session runs: one with no records, and SampleOrder
SessionOrders == {<<>>, SampleOrder}

\* the contexts of the session runs: one caller session with each session
\* configuration, another with none
SessionContexts ==
    {c \in Contexts : c.session = "s1" \/ c.session_config = None}

\* the answers of the remote service to the automatic login of a call: a
\* call whose key is cached attempts none
LoginAnswers(c) == IF IsCached(SessionKey(c)) THEN {TRUE} ELSE BOOLEAN

\* arguments of the session runs: well formed, a malformed date, a Sunday
\* target, an invalid meal-type token
SessionBulkArgs ==
    {[end_date |-> "2024-01-05", target |-> "2024-01-06", types |-> None],
     [end_date |-> "05/01/2024", target |-> "2024-01-06", types |-> None],
     [end_date |-> "2024-01-05", target |-> "2024-01-07", types |-> None],
     [end_date |-> "2024-01-05", target |-> "2024-01-06",
      types |-> Some(<<"SNACK">>)]}

\* (date, order_types) of hold_deliveries and skip_day in the session runs
SessionDateArgs ==
    {[date |-> "2024-01-05", types |-> None],
     [date |-> "05/01/2024", types |-> None],
     [date |-> "2024-01-05", types |-> Some(<<"SNACK">>)]}

\* (date, start_date, end_date) of change_address in the session runs
SessionAddressDateArgs ==
    {[date |-> Some("2024-01-05"), start_date |-> None, end_date |-> None],
     [date |-> Some("05/01/2024"), start_date |-> None, end_date |-> None],
     [date |-> None, start_date |-> None, end_date |-> None]}

\* the (username, password) pairs a caller passes to the tool login
LoginArgs == {<<"andhika", "rahasia">>, <<"andhika", "salah">>}

\* the state after either module has been loaded
SessionInit ==
    /\ schedules \in SessionOrders
    /\ server \in Servers
    /\ env \in EnvValues
    /\ Loaded

SessionNext ==
    \/ /\ ncalls < MaxCalls
       /\ \E c \in SessionContexts, up \in LoginArgs, ok \in BOOLEAN :
             \E k \in LoginAnswers(c) : LoginTool(c, k, up[1], up[2], ok)
    \/ /\ ncalls < MaxCalls
       /\ \E c \in SessionContexts, op \in DataTools, ok \in BOOLEAN :
             \E k \in LoginAnswers(c) : DataTool(c, k, op, ok)
    \/ /\ ncalls < MaxCalls
       /\ \E c \in SessionContexts, o \in OrderIds, b \in SessionBulkArgs,
             r \in BOOLEAN :
             \E k \in LoginAnswers(c) :
                 BulkRescheduleTool(c, k, o, "2024-01-05", b.end_date,
                                    b.target, b.types, r)
    \/ /\ ncalls < MaxCalls
       /\ \E c \in SessionContexts, o \in OrderIds, d \in SessionDateArgs,
             r \in BOOLEAN :
             \E k \in LoginAnswers(c) :
                 HoldDeliveries(c, k, o, "2024-01-05", d.date, d.types, r)
    \/ \E ok \in BOOLEAN : BulkStep(ok)
    \/ /\ ncalls < MaxCalls
       /\ \E c \in SessionContexts, o \in OrderIds, d \in SessionDateArgs,
             r \in BOOLEAN :
             \E k \in LoginAnswers(c) : SkipDay(c, k, o, d.date, d.types, r)
    \/ \E ok \in BOOLEAN : SkipStep(ok)
    \/ /\ ncalls < MaxCalls
       /\ \E c \in SessionContexts, o \in OrderIds, n \in NewAddressArgs,
             d \in SessionAddressDateArgs, r \in BOOLEAN :
             \E k \in LoginAnswers(c) : ChangeAddress(c, k, o, n, d, None, r)
    \/ AddressSkipLocked
    \/ \E ok \in BOOLEAN : AddressStep(ok)

SessionSpec == SessionInit /\ [][SessionNext]_vars

----------------------------------------------------------------------------
(* Requests that resolve one session key at the same time: get_client and  *)
(* get_client_for_session statement by statement.  Neither function takes  *)
(* a lock.                                                                 *)

\* number of requests that call get_client at the same time
MaxRacers == 2

\* a request that is about to test 'session_id not in _clients'
Racer == [pc |-> "check", missed |-> FALSE, handle |-> 0]

\* the contexts of the racing requests: one caller session, each session
\* configuration
RaceContexts == {c \in Contexts : c.session = "s1"}

\* the call state a step of get_client leaves alone
race_frame ==
    <<schedules, server, env, ncalls, prev, pc, tool, args, client,
      all_groups, groups_to_reschedule, idx, current_target, day_mapping,
      results, changed, calls, ret>>

\* MaxRacers requests of one context reach get_client
RaceArrive(c) ==
    /\ pc = "idle"
    /\ racers = <<>>
    /\ racers' = [r \in 1..MaxRacers |-> Racer]
    /\ ctx' = c
    /\ UNCHANGED <<race_frame, clients, handles, requests, auto_logins>>

\* if session_id not in _clients
RaceCheck(r) ==
    /\ r \in DOMAIN racers
    /\ racers[r].pc = "check"
    /\ LET hit == IsCached(SessionKey(ctx))
       IN  racers' = [racers EXCEPT ![r].pc = IF hit THEN "return" ELSE "create",
                                    ![r].missed = ~hit]
    /\ UNCHANGED <<race_frame, ctx, clients, handles, requests, auto_logins>>

\* StoreHandle that keeps an entry another request has written
StoreIfAbsent(session_id) ==
    IF session_id \in DOMAIN clients
    THEN [clients |-> clients, handles |-> handles]
    ELSE [clients |-> MapSet(clients, session_id, Len(handles) + 1),
          handles |-> Append(handles, WarlonClient)]

\* _clients[session_id] = WarlonClient(): the cache and the handles after
\* the assignment
StoreHandle(session_id) ==
    [clients |-> MapSet(clients, session_id, Len(handles) + 1),
     handles |-> Append(handles, WarlonClient)]

\* _clients[session_id] = WarlonClient()
RaceCreate(r) ==
    /\ r \in DOMAIN racers
    /\ racers[r].pc = "create"
    /\ LET stored == StoreHandle(SessionKey(ctx))
       IN  /\ clients' = stored.clients
           /\ handles' = stored.handles
    /\ racers' = [racers EXCEPT ![r].pc = "login"]
    /\ UNCHANGED <<race_frame, ctx, requests, auto_logins>>

\* the credentials, and _clients[session_id].login(username, password) if
\* both are there: the login goes to the handle the cache holds now
RaceLogin(r, accepted) ==
    /\ r \in DOMAIN racers
    /\ racers[r].pc = "login"
    /\ LET session_id == SessionKey(ctx)
           cred == Credentials(ctx)
           username == Value(cred.username)
           password == Value(cred.password)
           h == clients[session_id]
       IN  IF ShouldAutoLogin(cred.username, cred.password)
           THEN /\ handles' = [handles EXCEPT
                                  ![h] = login(@, username, password, accepted)]
                /\ requests' = requests
                                 \o LoginRequests(username, password, accepted)
                /\ auto_logins' =
                       MapSet(auto_logins, session_id,
                              Append(Attempts(session_id),
                                     accepted /\ <<username, password>>
                                                     \in Accounts))
           ELSE UNCHANGED <<handles, requests, auto_logins>>
    /\ racers' = [racers EXCEPT ![r].pc = "return"]
    /\ UNCHANGED <<race_frame, ctx, clients>>

\* return _clients[session_id]
RaceReturn(r) ==
    /\ r \in DOMAIN racers
    /\ racers[r].pc = "return"
    /\ racers' = [racers EXCEPT ![r].pc = "resolved",
                                ![r].handle = clients[SessionKey(ctx)]]
    /\ UNCHANGED <<race_frame, ctx, clients, handles, requests, auto_logins>>

\* either module has been loaded; the remote service holds SampleOrder
RaceInit ==
    /\ schedules = SampleOrder
    /\ server \in Servers
    /\ env \in EnvValues
    /\ Loaded

RaceNext ==
    \/ \E c \in RaceContexts : RaceArrive(c)
    \/ \E r \in 1..MaxRacers : RaceCheck(r)
    \/ \E r \in 1..MaxRacers : RaceCreate(r)
    \/ \E r \in 1..MaxRacers, k \in BOOLEAN : RaceLogin(r, k)
    \/ \E r \in 1..MaxRacers : RaceReturn(r)

RaceSpec == RaceInit /\ [][RaceNext]_vars

----------------------------------------------------------------------------
(* Bulk reschedule over an order whose deliveries lie days apart, with     *)
(* anchors a week later.                                                   *)

\* instants the service stores for 2024-01-06 (a Saturday), 2024-01-08 and
\* 2024-01-09, each at local midnight
SpreadInstants == {<<4, 17>>, <<6, 17>>, <<7, 17>>}

\* the orders of these runs
SpreadOrders ==
    {s \in [1..MaxRecords ->
               [id : 1..MaxRecords, utc : SpreadInstants, type : MealTypes,
                status : StatusValues, customerAddressId : {11},
                notes : {<<>>}]] :
        \A i \in 1..MaxRecords : s[i].id = i}

\* end_date of the source range
SpreadEndArgs == {"2024-01-08", "2024-01-09"}

\* target_start_date: a Friday and a Saturday
SpreadTargetArgs == {"2024-01-12", "2024-01-13"}

MappingInit ==
    /\ schedules \in SpreadOrders
    /\ server = "warlon_mcp"
    /\ env = [WARLON_USERNAME |-> Some("budi"),
              WARLON_PASSWORD |-> Some("sandi")]
    /\ Loaded

MappingNext ==
    \/ /\ pc = "idle"
       /\ \E e \in SpreadEndArgs, t \in SpreadTargetArgs,
             ty \in {None, Some(<<"lunch">>)} :
             BulkRescheduleTool(CallerContext, TRUE, 1, "2024-01-06", e, t,
                                ty, TRUE)
    \/ \E ok \in BOOLEAN : BulkStep(ok)

MappingSpec == MappingInit /\ [][MappingNext]_vars

----------------------------------------------------------------------------
(* Vocabulary of the properties.                                           *)

\* the order's records as the running call read them
Fetched == all_groups

\* the record an updateDelivery request addresses
GroupOfCall(c) ==
    CHOOSE g \in Range(Fetched) : g.id = c.payload.orderGroupId[2]

\* the record ids of the requests sent so far, in order
CallIds == [i \in 1..Len(calls) |-> calls[i].payload.orderGroupId[2]]

\* the calendar date an updateDelivery request carries
SentDate(c) == Strptime(c.payload.scheduledDate)

\* the running call goes through client.bulk_reschedule
InBulk == tool \in {"bulk_reschedule", "hold_deliveries"}

\* the anchor date of the running bulk call
Anchor ==
    IF tool = "bulk_reschedule" THEN Strptime(args.target_start_date)
    ELSE Strptime(args.hold_end) + 1

\* the tool call has returned a result after its loop over the records
Returned == pc = "done" /\ ret.kind \in {"bulk", "hold", "skip", "address"}

\* the ids of the records whose request failed
FailedIds == {CallIds[i] : i \in {j \in 1..Len(calls) : ~calls[j].ok}}

\* the ids of the records whose request succeeded
SucceededIds == {CallIds[i] : i \in {j \in 1..Len(calls) : calls[j].ok}}

\* first components of a sequence of tuples
Firsts(s) == [i \in 1..Len(s) |-> s[i][1]]

----------------------------------------------------------------------------
(* C1: in a bulk reschedule with a non-Sunday anchor, no target date of    *)
(* the day mapping and no date sent in an updateDelivery request is a      *)
(* Sunday.                                                                 *)
C1_NoSundayTarget ==
    (InBulk /\ ~IsSunday(Anchor)) =>
        /\ \A d \in DOMAIN day_mapping : ~IsSunday(day_mapping[d])
        /\ \A i \in 1..Len(calls) : ~IsSunday(SentDate(calls[i]))

\* a Saturday anchor and two source dates: the second target is the Monday
C1_Witness ==
    /\ InBulk /\ ~IsSunday(Anchor)
    /\ Cardinality(DOMAIN day_mapping) = 2
    /\ \E d \in DOMAIN day_mapping : Weekday(day_mapping[d]) = 0
    /\ Len(calls) = 2

(* C2: in a bulk reschedule with a non-Sunday anchor, the day mapping is   *)
(* strictly increasing in source-date order and no target date is before   *)
(* the anchor.                                                             *)
C2_MappingIncreasing ==
    (InBulk /\ ~IsSunday(Anchor)) =>
        /\ \A d1, d2 \in DOMAIN day_mapping :
               d1 < d2 => day_mapping[d1] < day_mapping[d2]
        /\ \A d \in DOMAIN day_mapping : day_mapping[d] >= Anchor

\* two source dates, listed by the service latest first
C2_Witness ==
    /\ InBulk /\ ~IsSunday(Anchor)
    /\ Cardinality(DOMAIN day_mapping) = 2
    /\ DateOf(Fetched[1]) > DateOf(Fetched[2])
    /\ \E d \in DOMAIN day_mapping : day_mapping[d] = Anchor

(* C3: in one bulk reschedule, two requests for records of the same source *)
(* calendar date carry the same target date, whatever the earlier request  *)
(* returned.                                                               *)
C3_SameDaySameTarget ==
    InBulk =>
        \A i, j \in 1..Len(calls) :
            DateOf(GroupOfCall(calls[i])) = DateOf(GroupOfCall(calls[j]))
                => calls[i].payload.scheduledDate = calls[j].payload.scheduledDate

\* the lunch and the dinner of one day, the first request failed
C3_Witness ==
    /\ InBulk
    /\ Len(calls) = 2
    /\ DateOf(GroupOfCall(calls[1])) = DateOf(GroupOfCall(calls[2]))
    /\ GroupOfCall(calls[1]).order_type # GroupOfCall(calls[2]).order_type
    /\ ~calls[1].ok

(* C4: a bulk reschedule or a hold whose anchor date is a Sunday is        *)
(* rejected: no mapping is produced and no updateDelivery request is sent. *)
C4_SundayAnchorRejected ==
    (InBulk /\ IsSunday(Anchor)) =>
        /\ day_mapping = EmptyMap
        /\ calls = <<>>

(* C5: when a bulk reschedule has returned, with M records selected and N  *)
(* requests failed, success_count is M-N, failed_count is N, failed holds  *)
(* exactly the ids of the failing records and rescheduled exactly the ids  *)
(* of the succeeding ones.                                                 *)
C5_PartialFailureCounts ==
    (InBulk /\ Returned) =>
        LET M == Len(groups_to_reschedule)
            N == Cardinality({i \in 1..Len(calls) : ~calls[i].ok})
        IN  /\ Len(calls) = M
            /\ results.success_count = M - N
            /\ results.failed_count = N
            /\ Len(results.failed) = N
            /\ Range(Firsts(results.failed)) = FailedIds
            /\ Len(results.rescheduled) = M - N
            /\ Range(Firsts(results.rescheduled)) = SucceededIds

\* two records selected, one request failed and one succeeded
C5_Witness ==
    /\ InBulk /\ Returned
    /\ Len(groups_to_reschedule) = 2
    /\ results.failed_count = 1
    /\ results.success_count = 1

\* the tool's loop is running or has run
InLoop == pc \in {"bulk_loop", "skip_loop", "address_loop"} \/ Returned

\* the ids of the selected records among the first n elements of the loop's
\* list, in order: the records with status "SCHEDULED"
RECURSIVE SelectedIds(_, _)
SelectedIds(groups, n) ==
    IF n = 0 THEN <<>>
    ELSE IF groups[n].status = "SCHEDULED"
         THEN Append(SelectedIds(groups, n - 1), groups[n].id)
         ELSE SelectedIds(groups, n - 1)

\* the requests sent so far are one per selected record the loop has
\* passed, in the order of the loop; at the return the loop has passed
\* every record
AttemptsFollowLoop ==
    InLoop =>
        /\ CallIds = SelectedIds(groups_to_reschedule, idx - 1)
        /\ Returned => idx = Len(groups_to_reschedule) + 1

(* C6: in bulk reschedule, hold, skip-day and change-address a failed      *)
(* request does not stop the batch: every selected record gets exactly one *)
(* updateDelivery request, in the order of the loop, whatever the earlier  *)
(* requests returned; requests are sent one at a time and a request, once  *)
(* sent, is never sent again.                                              *)
C6_OneAttemptEach ==
    /\ []AttemptsFollowLoop
    /\ [][/\ Len(calls') <= Len(calls) + 1
          /\ SubSeq(calls', 1, Len(calls)) = calls]_vars

\* skip-day went on to its second record after the first request failed
C6_Witness ==
    /\ tool = "skip_day" /\ Returned
    /\ Len(calls) = 2
    /\ ~calls[1].ok
    /\ CallIds[1] # CallIds[2]

\* the record ids a returned result names
IdsInResult(r) ==
    IF r.kind = "bulk" THEN Range(Firsts(r.rescheduled))
    ELSE IF r.kind = "skip"
         THEN {r.skipped[i].group_id : i \in 1..Len(r.skipped)}
    ELSE IF r.kind = "address"
         THEN {r.changed[i].group_id : i \in 1..Len(r.changed)}
    ELSE {}

(* C7: when a bulk operation has returned, the returned result names every *)
(* record whose updateDelivery request failed.                             *)
C7_FailuresReported ==
    Returned => FailedIds \subseteq IdsInResult(ret)

\* the dates of the successful requests, in order
RECURSIVE SucceededDates(_)
SucceededDates(cs) ==
    IF cs = <<>> THEN <<>>
    ELSE IF Head(cs).ok THEN <<SentDate(Head(cs))>> \o SucceededDates(Tail(cs))
         ELSE SucceededDates(Tail(cs))

\* the latest calendar date among all the order's records
MaxOrderDate ==
    CHOOSE m \in {DateOf(g) : g \in Range(Fetched)} :
        \A g \in Range(Fetched) : DateOf(g) <= m

\* the first business day after day
NextBusinessDay(day) == IF Weekday(day + 1) = 6 THEN day + 2 ELSE day + 1

\* dates is a run of consecutive business days that starts right after day
ConsecutiveBusinessDaysAfter(dates, day) ==
    \A i \in 1..Len(dates) :
        dates[i] = NextBusinessDay(IF i = 1 THEN day ELSE dates[i - 1])

(* C8 as stated: skip-day sends every qualifying record a target date of   *)
(* its own; the dates sent are sequential business days, none a Sunday,    *)
(* all after the latest date of the order's records.                       *)
C8_DistinctTargetEach ==
    tool = "skip_day" =>
        ConsecutiveBusinessDaysAfter(
            [i \in 1..Len(calls) |-> SentDate(calls[i])], MaxOrderDate)

(* C8 amended: skip-day sends every request a date that is no Sunday and   *)
(* is after the latest date of the order's records; the records whose      *)
(* request succeeds get distinct dates, the consecutive business days      *)
(* after that latest date; a request that follows a failed one carries the *)
(* failed request's date again.                                            *)
C8_MovedRecordsDistinct ==
    tool = "skip_day" =>
        /\ \A i \in 1..Len(calls) :
               /\ ~IsSunday(SentDate(calls[i]))
               /\ SentDate(calls[i]) > MaxOrderDate
        /\ ConsecutiveBusinessDaysAfter(SucceededDates(calls), MaxOrderDate)
        /\ \A i \in 1..Len(calls) - 1 :
               ~calls[i].ok => SentDate(calls[i + 1]) = SentDate(calls[i])

\* two records moved from a Saturday: to the Monday and the Tuesday
C8_Witness ==
    /\ tool = "skip_day" /\ Returned
    /\ Len(calls) = 2
    /\ calls[1].ok /\ calls[2].ok
    /\ IsSunday(MaxOrderDate + 1)
    /\ SentDate(calls[2]) = SentDate(calls[1]) + 1

\* the inclusive range a change-address call asks for
AddressRange ==
    IF args.date.some
    THEN <<Strptime(args.date.val), Strptime(args.date.val)>>
    ELSE <<Strptime(args.start_date.val), Strptime(args.end_date.val)>>

(* C9: every updateDelivery request of change-address is for a record with *)
(* status "SCHEDULED", inside the requested date or inclusive range and    *)
(* the type filter, and carries that record's own calendar date.           *)
C9_AddressKeepsDate ==
    tool = "change_address" =>
        \A i \in 1..Len(calls) :
            LET g == GroupOfCall(calls[i])
            IN  /\ g.status = "SCHEDULED"
                /\ AddressRange[1] <= DateOf(g)
                /\ DateOf(g) <= AddressRange[2]
                /\ args.order_types.some =>
                       g.order_type \in Range(TypesList(args.order_types).val)
                /\ SentDate(calls[i]) = DateOf(g)

\* a range of one day with a type filter, a record of the order outside it
C9_Witness ==
    /\ tool = "change_address" /\ Returned
    /\ Len(calls) = 1
    /\ args.order_types.some
    /\ \E g \in Range(Fetched) :
           g.status = "SCHEDULED" /\ DateOf(g) < AddressRange[1]
    /\ calls[1].payload.customerAddressId = args.new_address_id

(* C10: every updateDelivery request of change-address carries the         *)
(* record's existing meal type and its existing notes.                     *)
C10_AddressKeepsTypeAndNotes ==
    tool = "change_address" =>
        \A i \in 1..Len(calls) :
            LET g == GroupOfCall(calls[i])
            IN  /\ calls[i].payload.mealType = g.order_type
                /\ calls[i].payload.notes = g.notes

----------------------------------------------------------------------------
(* Properties of a repeated call and of the sessions.                      *)

\* every updateDelivery request of cs succeeded
AllOk(cs) == \A i \in 1..Len(cs) : cs[i].ok

\* the calendar date and the address of every record the service holds
DatesAndAddresses(raw) ==
    [i \in 1..Len(raw) |->
        <<AsJakarta(raw[i].utc[1], raw[i].utc[2]).day,
          raw[i].customerAddressId>>]

\* a change-address call has returned that repeats a change-address call
\* which changed records, every updateDelivery request of both accepted
RepeatedAddressChange ==
    /\ pc = "done" /\ tool = "change_address"
    /\ prev.some
    /\ prev.val.ret.kind = "address" /\ prev.val.ret.success
    /\ AllOk(prev.val.calls)
    /\ ret.kind = "address" /\ AllOk(calls)

(* C11: a change-address call that repeats, with the same new address and  *)
(* the same selection, a call that changed records succeeds again when     *)
(* every remote update of both runs is accepted, changes the same set of   *)
(* records, and leaves every record's date and address as they were after  *)
(* the first run.                                                          *)
C11_AddressIdempotent ==
    RepeatedAddressChange =>
        /\ ret.success
        /\ IdsInResult(ret) = IdsInResult(prev.val.ret)
        /\ DatesAndAddresses(schedules) = DatesAndAddresses(prev.val.schedules)

\* both runs changed the same two records
C11_Witness ==
    /\ RepeatedAddressChange
    /\ Len(prev.val.calls) = 2
    /\ Len(calls) = 2
    /\ \A i \in 1..Len(schedules) :
           schedules[i].customerAddressId = args.new_address_id

\* the cache key of the running call
CallKey == SessionKey(ctx)

\* the handle the running call works with
CallHandle == handles[client]

\* a step that starts a tool call
StartsCall == ncalls' = ncalls + 1

(* C12: once a session key has been resolved to a handle, the cache keeps  *)
(* that entry for ever, the handle stays the same object, and every later  *)
(* call that resolves the key gets that handle.                            *)
C12_CacheKeepsHandle ==
    [][/\ \A k \in DOMAIN clients :
              k \in DOMAIN clients' /\ clients'[k] = clients[k]
       /\ Len(handles') >= Len(handles)
       /\ (StartsCall /\ SessionKey(ctx') \in DOMAIN clients) =>
              /\ client' = clients[SessionKey(ctx')]
              /\ Len(handles') = Len(handles)]_vars

\* warlon_mcp.py has served two calls of one caller session from one
\* handle
C12_Witness ==
    /\ server = "warlon_mcp"
    /\ ncalls = 2
    /\ DOMAIN clients = {CallKey}
    /\ Len(handles) = 1
    /\ client = 1

\* the POST /api/auth/login requests among reqs
LoginPosts(reqs) ==
    SelectFrom(reqs,
        {q \in Range(reqs) : q.kind = "POST /api/auth/login"})

\* the requests of the running call that are no part of a login
DataRequestsSent ==
    SelectFrom(requests,
        {q \in Range(requests) :
            q.kind \notin {"GET /login", "POST /api/auth/login"}})

(* C13: a key whose automatic login failed is cached all the same and the  *)
(* call gets the handle unauthenticated; when a later call of the tool     *)
(* login through that key sends credentials the service accepts, it works  *)
(* on that cached handle and leaves it authenticated; and on an            *)
(* authenticated handle a data call whose request the service answers      *)
(* returns data.                                                           *)
C13_LoginAfterFailedAutoLogin ==
    /\ [](\A k \in DOMAIN auto_logins :
              /\ k \in DOMAIN clients
              /\ auto_logins[k] = <<FALSE>> /\ ncalls = 1 /\ tool # "login"
                     => /\ k = CallKey /\ client = clients[k]
                        /\ ~handles[client].is_authenticated)
    /\ [][(/\ StartsCall /\ tool' = "login"
           /\ SessionKey(ctx') \in DOMAIN clients
           /\ requests'[Len(requests')].ok)
              => /\ client' = clients[SessionKey(ctx')]
                 /\ clients'[SessionKey(ctx')] = client'
                 /\ handles'[client'].is_authenticated]_vars
    /\ []((/\ pc = "done" /\ tool \in DataTools
           /\ handles[client].is_authenticated
           /\ requests # <<>> /\ requests[Len(requests)].ok)
              => ret.kind = "data" /\ ret.success)

\* a data call returns data from the one cached handle, whose automatic
\* login had failed: the call before it was the login that authenticated
\* the handle
C13_Witness ==
    /\ ncalls = 2 /\ pc = "done"
    /\ tool \in DataTools
    /\ ret.kind = "data" /\ ret.success
    /\ Len(handles) = 1
    /\ auto_logins = MapSet(EmptyMap, CallKey, <<FALSE>>)
    /\ handles[client].is_authenticated

(* C14: get_client attempts an automatic login at most once per session    *)
(* key: only in the call that resolves the key for the first time, and     *)
(* only with a username and a password, both available; a call that finds  *)
(* the key in the cache sends no login request of its own accord.          *)
C14_AutoLoginOnce ==
    /\ [](\A k \in DOMAIN auto_logins : Len(auto_logins[k]) <= 1)
    /\ [][StartsCall =>
            LET k == SessionKey(ctx')
                explicit == IF tool' = "login" THEN 1 ELSE 0
                posts == LoginPosts(requests')
            IN  /\ Len(posts) <= explicit + 1
                /\ k \in DOMAIN clients => Len(posts) = explicit
                /\ Len(posts) = explicit + 1 =>
                       /\ k \notin DOMAIN clients
                       /\ posts[1].detail[1] # "None"
                       /\ posts[1].detail[2] # "None"
                       /\ k \in DOMAIN auto_logins'
                       /\ Len(auto_logins'[k]) = 1]_vars

\* the second call of a key whose automatic login had failed: the handle
\* is still unauthenticated and the call has sent no request
C14_Witness ==
    /\ ncalls = 2 /\ pc = "done"
    /\ tool \in DataTools
    /\ Len(handles) = 1
    /\ auto_logins = MapSet(EmptyMap, CallKey, <<FALSE>>)
    /\ ~handles[client].is_authenticated
    /\ requests = <<>>

(* C15: an automatic login sends the username of the session              *)
(* configuration when the configuration supplies one and the password of   *)
(* the session configuration when it supplies one; the environment gives   *)
(* only the credential the configuration does not supply.                  *)
C15_ConfigBeforeEnv ==
    [][(StartsCall /\ auto_logins' # auto_logins) =>
          LET config == ctx'.session_config
              sent == LoginPosts(requests')[1].detail
          IN  /\ sent[1] = IF config.some /\ config.val.warlon_username.some
                           THEN config.val.warlon_username.val
                           ELSE env.WARLON_USERNAME.val
              /\ sent[2] = IF config.some /\ config.val.warlon_password.some
                           THEN config.val.warlon_password.val
                           ELSE env.WARLON_PASSWORD.val]_vars

(* C16: two calls of distinct caller sessions never get the same handle.   *)
C16_SessionsIsolated ==
    [][(StartsCall /\ ncalls >= 1 /\ ctx'.session # ctx.session) =>
          client' # client]_vars

\* the tools that read the order and send updateDelivery requests
ReschedulingTools ==
    {"bulk_reschedule", "hold_deliveries", "skip_day", "change_address"}

(* C17: while the handle of a call has no successful login, the call sends *)
(* no data request (no read, no update of a delivery, no restrictions      *)
(* request); a data tool fails with the not-authenticated condition, and   *)
(* so does a rescheduling tool whose arguments have passed its checks.     *)
C17_UnauthenticatedFailsEarly ==
    (pc # "idle" /\ ~handles[client].is_authenticated) =>
        /\ DataRequestsSent = <<>>
        /\ calls = <<>>
        /\ pc = "done"
        /\ tool \in DataTools =>
               ret.kind = "raised" /\ ret.error = "not authenticated"
        /\ tool \in ReschedulingTools =>
               \/ ret.kind = "invalid"
               \/ ret.kind = "raised" /\ ret.error = "ValueError"
               \/ /\ ret.kind \in {"raised", "error"}
                  /\ ret.error = "not authenticated"

\* update_restrictions on a handle whose automatic login was refused
C17_Witness ==
    /\ pc = "done"
    /\ tool = "update_restrictions"
    /\ ~handles[client].is_authenticated
    /\ Len(LoginPosts(requests)) = 1
    /\ ret.kind = "raised" /\ ret.error = "not authenticated"

(* C18: no tool call leaves the tool as an exception: whatever the input   *)
(* and whatever the remote service answers, the call returns a result.     *)
C18_NeverRaises == pc = "done" => ret.kind # "raised"

(* C19: a call that fails the validation of its input has sent no request  *)
(* to the remote service: no login, no read, no update.                    *)
C19_InvalidInputNoRemoteCall ==
    (pc = "done" /\ ret.kind = "invalid") => requests = <<>> /\ calls = <<>>

\* the order_types argument of the running call names a token that is no
\* meal type
InvalidTypeToken ==
    /\ tool \in ReschedulingTools
    /\ args.order_types.some
    /\ \E i \in 1..Len(args.order_types.val) :
           args.order_types.val[i] \notin {"lunch", "LUNCH", "dinner", "DINNER"}

(* C20: a call of bulk reschedule, hold, skip-day or change-address whose  *)
(* type filter names an invalid meal-type token ends as an input           *)
(* validation failure, on a handle that is logged in and with every        *)
(* request answered.                                                       *)
C20_InvalidTokenRejected ==
    (/\ pc # "idle" /\ InvalidTypeToken
     /\ handles[client].is_authenticated
     /\ \A i \in 1..Len(requests) : requests[i].ok)
        => pc = "done" /\ ret.kind = "invalid"

----------------------------------------------------------------------------
(* Properties of the single reschedule, of the read, and of the bulk       *)
(* selection.                                                              *)

\* the order's read of the running call was answered
ReadSucceeded ==
    \E i \in 1..Len(requests) :
        /\ requests[i].kind = "GET /api/customer-package-orders/{id}"
        /\ requests[i].ok

\* the order's read of the running call failed
ReadFailed ==
    \E i \in 1..Len(requests) :
        /\ requests[i].kind = "GET /api/customer-package-orders/{id}"
        /\ ~requests[i].ok

(* C21: a single reschedule that has read the order and finds no record    *)
(* with the given id among the records read returns a not-found message    *)
(* and sends no updateDelivery request; a request it sends is addressed    *)
(* with the schedule id of the record read under that id.                  *)
C21_SingleNotFound ==
    tool = "reschedule_delivery" =>
        /\ (/\ pc # "idle" /\ ReadSucceeded
            /\ \A g \in Range(Fetched) : g.id # args.group_id)
               => /\ pc = "done"
                  /\ ret.kind = "not found"
                  /\ calls = <<>>
        /\ \A i \in 1..Len(calls) :
               \E g \in Range(Fetched) :
                   /\ g.id = args.group_id
                   /\ calls[i].payload.orderGroupId = <<g.schedule_id, g.id>>

\* the order was read, holds records, and none has the given id
C21_Witness ==
    /\ tool = "reschedule_delivery" /\ pc = "done"
    /\ ReadSucceeded
    /\ Fetched # <<>>
    /\ \A g \in Range(Fetched) : g.id # args.group_id
    /\ ret.kind = "not found"
    /\ calls = <<>>

\* the tools that read the order and then send updateDelivery requests
UpdatingTools == ReschedulingTools \cup {"reschedule_delivery"}

(* C22: in single reschedule, bulk reschedule, hold, skip-day and           *)
(* change-address an updateDelivery request is sent only after the order's *)
(* read was answered; when the read fails the call ends as a failure (an   *)
(* error message or an exception), no updateDelivery request is sent and   *)
(* no record of the order changes.                                         *)
C22_ReadBeforeUpdate ==
    /\ []((tool \in UpdatingTools /\ pc # "idle") =>
              /\ calls # <<>> => ReadSucceeded
              /\ ReadFailed =>
                     /\ pc = "done"
                     /\ calls = <<>>
                     /\ ret.kind \in {"error", "raised"})
    /\ [][(tool' \in UpdatingTools /\ ReadFailed') =>
              schedules' = schedules]_vars

\* a hold whose read failed, over a range that holds an editable record
C22_Witness ==
    /\ tool = "hold_deliveries" /\ pc = "done"
    /\ ReadFailed
    /\ ret.kind = "raised"
    /\ calls = <<>>
    /\ \E i \in 1..Len(schedules) :
           /\ schedules[i].status = "SCHEDULED"
           /\ AsJakarta(schedules[i].utc[1], schedules[i].utc[2]).day
                  = Strptime(args.hold_start)
           /\ args.hold_end = args.hold_start
           /\ ~args.order_types.some

\* the calendar date the service holds for the record with the given id
ServiceDate(id) ==
    LET raw == schedules[CHOOSE i \in 1..Len(schedules) : schedules[i].id = id]
    IN  AsJakarta(raw.utc[1], raw.utc[2]).day

(* C23: a hold is a bulk reschedule whose anchor is the day after the end   *)
(* of the hold: the first target is the first day that is no Sunday from   *)
(* that day on, every target of the mapping and every date sent is after   *)
(* the end of the hold, and a record whose request was accepted is on a    *)
(* date after the end of the hold.                                         *)
C23_HoldMovesPastEnd ==
    tool = "hold_deliveries" =>
        /\ \A d \in DOMAIN day_mapping :
               day_mapping[d] > Strptime(args.hold_end)
        /\ day_mapping # EmptyMap =>
               \E d \in DOMAIN day_mapping :
                   day_mapping[d] =
                       IF Weekday(Strptime(args.hold_end) + 1) = 6
                       THEN Strptime(args.hold_end) + 2
                       ELSE Strptime(args.hold_end) + 1
        /\ \A i \in 1..Len(calls) :
               /\ SentDate(calls[i]) > Strptime(args.hold_end)
               /\ calls[i].ok =>
                      /\ ServiceDate(CallIds[i]) = SentDate(calls[i])
                      /\ ServiceDate(CallIds[i]) > Strptime(args.hold_end)

\* a hold of Friday and Saturday has moved the record of each day: to the
\* Monday and the Tuesday
C23_Witness ==
    /\ tool = "hold_deliveries" /\ Returned
    /\ args.hold_start = "2024-01-05" /\ args.hold_end = "2024-01-06"
    /\ Len(calls) = 2
    /\ calls[1].ok /\ calls[2].ok
    /\ SentDate(calls[1]) = 7 /\ SentDate(calls[2]) = 8
    /\ ret.deliveries_held = 2

\* the racing requests that found the key absent and have passed the given
\* positions of get_client
MissedAndPassed(positions) ==
    {r \in DOMAIN racers :
        racers[r].missed /\ racers[r].pc \notin positions}

(* C24: when requests of one session key are inside the first resolve at   *)
(* the same time, every request that found the key absent constructs a     *)
(* handle of its own and, with a username and a password available,        *)
(* attempts a login of its own; a request returns a handle that was        *)
(* constructed for the key.  Two requests that both found the key absent   *)
(* therefore leave two handles and two login attempts.                     *)
C24_RaceConstructsTwo ==
    racers # <<>> =>
        LET cred == Credentials(ctx)
            attempts == IF cred.username.some /\ cred.password.some
                        THEN Cardinality(MissedAndPassed({"check", "create", "login"}))
                        ELSE 0
        IN  /\ Len(handles) = Cardinality(MissedAndPassed({"check", "create"}))
            /\ Len(Attempts(SessionKey(ctx))) = attempts
            /\ \A r \in DOMAIN racers :
                   racers[r].pc = "resolved" =>
                       racers[r].handle \in 1..Len(handles)

\* two requests have resolved the key: two handles were constructed, two
\* logins attempted, and the two requests hold different handles
C24_Witness ==
    /\ racers # <<>>
    /\ \A r \in DOMAIN racers : racers[r].pc = "resolved"
    /\ Len(handles) >= 2
    /\ Len(Attempts(SessionKey(ctx))) >= 2
    /\ \E r1, r2 \in DOMAIN racers : racers[r1].handle # racers[r2].handle

\* the n-th calendar day that is no Sunday, counted from a day that is no
\* Sunday itself
RECURSIVE NthBusinessDay(_, _)
NthBusinessDay(day, n) ==
    IF n = 1 THEN day ELSE NextBusinessDay(NthBusinessDay(day, n - 1))

\* the calendar dates of the records the running call has selected
SourceDates == {DateOf(g) : g \in Range(groups_to_reschedule)}

(* C25: in a bulk reschedule with an anchor that is no Sunday, the source   *)
(* date that is the n-th in ascending order gets the n-th day that is no   *)
(* Sunday from the anchor on, whatever the distance between the source     *)
(* dates, and at the return every source date has its target: records on   *)
(* 2024-01-06 and 2024-01-08 with the anchor 2024-01-13 go to 2024-01-13   *)
(* and 2024-01-15.                                                         *)
C25_FirstBusinessDays ==
    (InBulk /\ pc # "idle" /\ ~IsSunday(Anchor)) =>
        /\ \A d \in DOMAIN day_mapping :
               day_mapping[d] =
                   NthBusinessDay(Anchor,
                       Cardinality({e \in DOMAIN day_mapping : e <= d}))
        /\ Returned => DOMAIN day_mapping = SourceDates
        /\ (/\ Returned
            /\ SourceDates = {Strptime("2024-01-06"), Strptime("2024-01-08")}
            /\ args.target_start_date = "2024-01-13")
               => /\ Strftime(day_mapping[Strptime("2024-01-06")]) = "2024-01-13"
                  /\ Strftime(day_mapping[Strptime("2024-01-08")]) = "2024-01-15"

\* the example: records on 2024-01-06 and 2024-01-08, anchor 2024-01-13
C25_Witness ==
    /\ tool = "bulk_reschedule" /\ Returned
    /\ args.target_start_date = "2024-01-13"
    /\ SourceDates = {5, 7}
    /\ Len(calls) = 2
    /\ calls[1].payload.scheduledDate = "2024-01-13"
    /\ calls[2].payload.scheduledDate = "2024-01-15"

\* the inclusive source range of the running bulk call
BulkRange ==
    IF tool = "bulk_reschedule"
    THEN <<Strptime(args.start_date), Strptime(args.end_date)>>
    ELSE <<Strptime(args.hold_start), Strptime(args.hold_end)>>

\* the meal types the running call asks for: both when it names none
WantedTypes ==
    IF args.order_types.some
    THEN {StripUpper(args.order_types.val[i]) :
              i \in 1..Len(args.order_types.val)}
    ELSE {"LUNCH", "DINNER"}

\* the ids of the order's records that are editable, inside the range and
\* of a wanted type
QualifyingIds ==
    {g.id : g \in {h \in Range(Fetched) :
                      /\ h.status = "SCHEDULED"
                      /\ BulkRange[1] <= DateOf(h) /\ DateOf(h) <= BulkRange[2]
                      /\ h.order_type \in WantedTypes}}

\* the requests of the running call went to exactly the qualifying records,
\* one request each
CallsAreQualifying ==
    /\ Range(CallIds) = QualifyingIds
    /\ Len(calls) = Cardinality(QualifyingIds)

\* (calendar date, meal type) of g is not after that of h
DateTypeLeq(g, h) ==
    \/ DateOf(g) < DateOf(h)
    \/ DateOf(g) = DateOf(h) /\ TypeRank(g.order_type) <= TypeRank(h.order_type)

\* (local date and time, meal type) of g is not after that of h
InstantTypeLeq(g, h) ==
    \/ g.scheduled_date.day < h.scheduled_date.day
    \/ /\ g.scheduled_date.day = h.scheduled_date.day
       /\ g.scheduled_date.hour < h.scheduled_date.hour
    \/ /\ g.scheduled_date = h.scheduled_date
       /\ TypeRank(g.order_type) <= TypeRank(h.order_type)

(* C26 as stated: a bulk reschedule sends its updateDelivery requests to   *)
(* exactly the order's records that are editable, inside the inclusive     *)
(* range and of a wanted type, in ascending order of (calendar date, meal   *)
(* type).                                                                  *)
C26_SelectedInDateOrder ==
    (InBulk /\ Returned) =>
        /\ CallsAreQualifying
        /\ \A i, j \in 1..Len(calls) :
               i < j => DateTypeLeq(GroupOfCall(calls[i]), GroupOfCall(calls[j]))

(* C26 amended: a bulk reschedule sends its updateDelivery requests to     *)
(* exactly the order's records that are editable, inside the inclusive     *)
(* range and of a wanted type, in ascending order of (local date and time  *)
(* of the record's batch, meal type); records of one batch go DINNER       *)
(* first.                                                                  *)
C26_SelectedInInstantOrder ==
    (InBulk /\ Returned) =>
        /\ CallsAreQualifying
        /\ \A i, j \in 1..Len(calls) :
               i < j => InstantTypeLeq(GroupOfCall(calls[i]),
                                       GroupOfCall(calls[j]))

\* two records of one calendar date: the lunch of the earlier batch was
\* sent before the dinner of the later batch
C26_Witness ==
    /\ tool = "bulk_reschedule" /\ Returned
    /\ Len(calls) = 2
    /\ DateOf(GroupOfCall(calls[1])) = DateOf(GroupOfCall(calls[2]))
    /\ GroupOfCall(calls[1]).scheduled_date.hour
           < GroupOfCall(calls[2]).scheduled_date.hour
    /\ GroupOfCall(calls[1]).order_type = "LUNCH"
    /\ GroupOfCall(calls[2]).order_type = "DINNER"

(* C27: every updateDelivery request of a bulk reschedule or a hold is     *)
(* addressed to the record's own batch and id and carries the record's     *)
(* meal type, its address id and its notes as they were read; the date is  *)
(* the one the day mapping gives to the record's date.                     *)
C27_BulkKeepsTypeAddressNotes ==
    InBulk =>
        \A i \in 1..Len(calls) :
            LET g == GroupOfCall(calls[i])
                p == calls[i].payload
            IN  /\ p.orderGroupId = <<g.schedule_id, g.id>>
                /\ p.packageOrderId = args.order_id
                /\ p.mealType = g.order_type
                /\ p.customerAddressId = g.address_id
                /\ p.notes = g.notes
                /\ p.scheduledDate = Strftime(day_mapping[DateOf(g)])

\* a hold has moved a record that carries a note to another date
C27_Witness ==
    /\ tool = "hold_deliveries" /\ Returned
    /\ \E i \in 1..Len(calls) :
           /\ calls[i].ok
           /\ calls[i].payload.notes = <<"tanpa sambal">>
           /\ GroupOfCall(calls[i]).notes = <<"tanpa sambal">>
           /\ SentDate(calls[i]) # DateOf(GroupOfCall(calls[i]))

----------------------------------------------------------------------------
(* Properties of the login state and of skip-day's target date.            *)

(* C28: a handle that is authenticated stays authenticated in every step;  *)
(* a call of the tool login that fails on it leaves the handle as it was,  *)
(* with the user data of the earlier login; and a data tool on an          *)
(* authenticated handle never fails with the not-authenticated condition.  *)
C28_AuthenticatedStays ==
    /\ [][/\ \A h \in 1..Len(handles) :
                 handles[h].is_authenticated =>
                     /\ h \in 1..Len(handles')
                     /\ handles'[h].is_authenticated
          /\ (/\ StartsCall /\ tool' = "login" /\ ~ret'.success
              /\ client' \in 1..Len(handles))
                 => handles'[client'] = handles[client']]_vars
    /\ []((/\ pc = "done" /\ tool \in DataTools
           /\ handles[client].is_authenticated)
              => /\ ret.kind \in {"data", "raised"}
                 /\ ret.kind = "raised" => ret.error = "http"
                 /\ DataRequestsSent # <<>>)

\* the second call is a login the service refused, on a handle the first
\* call had logged in: the handle is still authenticated as that user
C28_Witness ==
    /\ ncalls = 2 /\ pc = "done"
    /\ tool = "login" /\ ~ret.success
    /\ Len(handles) = 1
    /\ handles[client].is_authenticated
    /\ handles[client].user_data.some
    /\ handles[client].user_data.val # args.username

\* the request the step has just sent
LastCall == calls'[Len(calls')]

(* C29: every request of skip-day carries the target date of the moment;   *)
(* an accepted request moves the target date to the next day that is no    *)
(* Sunday, a failed request leaves it where it is, so the request after a  *)
(* failed one carries the same date; the first request carries the first   *)
(* day that is no Sunday after the latest date of the order, and the dates *)
(* of the accepted requests are consecutive such days from there on.       *)
C29_SkipAdvancesOnSuccess ==
    /\ [][(/\ tool = "skip_day" /\ pc = "skip_loop"
           /\ Len(calls') = Len(calls) + 1)
              => /\ SentDate(LastCall) = current_target
                 /\ LastCall.ok =>
                        current_target' = NextBusinessDay(current_target)
                 /\ ~LastCall.ok => current_target' = current_target]_vars
    /\ []((tool = "skip_day" /\ calls # <<>>) =>
              /\ SentDate(calls[1]) = NextBusinessDay(MaxOrderDate)
              /\ \A i \in 1..(Len(calls) - 1) :
                     SentDate(calls[i + 1]) =
                         IF calls[i].ok
                         THEN NextBusinessDay(SentDate(calls[i]))
                         ELSE SentDate(calls[i])
              /\ ConsecutiveBusinessDaysAfter(SucceededDates(calls),
                                              MaxOrderDate))

\* the first request failed and the second, for another record, was
\* accepted on the same date: the first day after the order's latest date
C29_Witness ==
    /\ tool = "skip_day" /\ Returned
    /\ Len(calls) = 2
    /\ ~calls[1].ok /\ calls[2].ok
    /\ SentDate(calls[2]) = SentDate(calls[1])
    /\ SentDate(calls[2]) = NextBusinessDay(MaxOrderDate)
    /\ Len(ret.skipped) = 1

(* C30: a single reschedule whose target date is no Sunday, whose meal     *)
(* type is LUNCH or DINNER and whose record id is among the records read   *)
(* sends exactly one updateDelivery request, for that record, whatever the *)
(* record's status; bulk reschedule, hold, skip-day and change-address     *)
(* send requests only for records with status "SCHEDULED".                 *)
C30_SingleIgnoresStatus ==
    /\ (/\ tool = "reschedule_delivery" /\ pc = "done"
        /\ IsDateString(args.new_date)
        /\ ~IsSunday(Strptime(args.new_date))
        /\ args.order_type \in {"LUNCH", "DINNER"}
        /\ \E g \in Range(Fetched) : g.id = args.group_id)
           => /\ Len(calls) = 1
              /\ CallIds[1] = args.group_id
    /\ tool \in ReschedulingTools =>
           \A i \in 1..Len(calls) : GroupOfCall(calls[i]).status = "SCHEDULED"

\* a single reschedule has moved a record that was delivered already
C30_Witness ==
    /\ tool = "reschedule_delivery" /\ pc = "done"
    /\ Len(calls) = 1
    /\ calls[1].ok
    /\ GroupOfCall(calls[1]).status = "DELIVERED"
    /\ ret.kind = "single" /\ ret.success

====
